---- MODULE Spec2Model ----
(***************************************************************************)
(* KDUID (identifier generator) and KDUIDManager (entity <-> identifier    *)
(* association manager).                                                   *)
(*                                                                         *)
(* A string is a TLA+ string, its p-th character the one-character string  *)
(* Ch(str, p).  A 32-bit unsigned value is a sequence of four bytes, most   *)
(* significant first; the bitwise operators of the source work on its 32    *)
(* bits.                                                                    *)
(***************************************************************************)
EXTENDS Integers, Sequences, FiniteSets, TLC

VARIABLES
    generated,  \* KDUID: the list of previously generated identifiers
    map,        \* KDUIDManager: self.map, the entries in insertion order
    last,       \* the last operation: its arguments, its result, the state it started from
    issued,     \* every identifier generate() returned, in order, over the lifetime
    seeded,     \* the list the generator was constructed with
    installed,  \* the list the last construction or successful setExisting installed
    sinceSet,   \* the identifiers generate() returned since `installed` was installed
    values,     \* formatUid: the four random values
    uuid,       \* formatUid: the string it returns
    input,      \* validator: its argument
    output      \* validator: the list it returns

vars == <<generated, map, last, issued, seeded, installed, sinceSet,
          values, uuid, input, output>>

----------------------------------------------------------------------------
(* Bounds of the model. *)

\* longest list handed to validate
MaxList == 3
\* longest list handed to setExisting
MaxCandidates == 2
\* most generate() calls in one generator lifetime
MaxCalls == 3
\* longest list of entries handed to setEntries
MaxEntries == 2

----------------------------------------------------------------------------
(* Helpers over sequences. *)

Range(s) == {s[i] : i \in 1..Len(s)}

SeqsUpTo(S, n) == UNION {[1..k -> S] : k \in 0..n}

\* the p-th character of a string
Ch(str, p) == SubSeq(str, p, p)

NoDuplicates(s) == \A i, j \in 1..Len(s) : i # j => s[i] # s[j]

----------------------------------------------------------------------------
(* 32-bit values and the bitwise operators of the source. *)

\* bit i (0 = least significant) of a byte or small non-negative number
BitOf(n, i) == (n \div (2 ^ i)) % 2

\* the 32 bits of a value given as four bytes, most significant byte first
Bits(w) == [i \in 0..31 |-> BitOf(w[4 - (i \div 8)], i % 8)]

\* the 32 bits of a non-negative literal such as 0xff
Lit(n) == [i \in 0..31 |-> IF i < 31 THEN BitOf(n, i) ELSE 0]

\* a shift that leaves its operand where it is
SarNone(x, k) == x

\* x >> k : sign-propagating right shift of a 32-bit integer
Sar(x, k) == [i \in 0..31 |-> IF i + k <= 31 THEN x[i + k] ELSE x[31]]

\* x & y
BitAnd(x, y) == [i \in 0..31 |-> x[i] * y[i]]

\* a | that leaves its left operand as it is
BitOrNone(x, y) == x

\* x | y
BitOr(x, y) == [i \in 0..31 |-> IF x[i] = 1 \/ y[i] = 1 THEN 1 ELSE 0]

\* the number bits lo..hi of x stand for
RECURSIVE SumBits(_, _, _)
SumBits(x, lo, hi) ==
    IF lo = hi THEN x[lo] * (2 ^ lo)
    ELSE LET mid == (lo + hi) \div 2
         IN  SumBits(x, lo, mid) + SumBits(x, mid + 1, hi)

\* the number a 32-bit result stands for (a signed 32-bit integer)
ToNumber(x) ==
    IF x[31] = 1 THEN (SumBits(x, 0, 30) - 1073741824) - 1073741824
    ELSE SumBits(x, 0, 30)

----------------------------------------------------------------------------
(* KDUID: lookup and formatUid. *)

HexDigits == <<"0", "1", "2", "3", "4", "5", "6", "7",
               "8", "9", "a", "b", "c", "d", "e", "f">>

\* i.toString(16)
RECURSIVE toString16(_)
toString16(i) ==
    IF i < 16 THEN HexDigits[i + 1]
    ELSE toString16(i \div 16) \o HexDigits[(i % 16) + 1]

Undefined == "undefined"

\* lookup[i]: the table holds 0..255; any other index reads undefined
lookup(i) ==
    IF i \in 0..255
    THEN (IF i < 16 THEN "0" ELSE "") \o toString16(i)
    ELSE Undefined

Hyphen == "-"

\* the sixteen table indexes formatUid computes: entry j is
\* ((values[n] >> shift) & mask) | set, the entries the source writes
\* without a shift or without an | having shift 0 or set 0
indexes ==
    << [n |-> 1, shift |-> 0, mask |-> 255, set |-> 0],
       [n |-> 1, shift |-> 8, mask |-> 255, set |-> 0],
       [n |-> 1, shift |-> 16, mask |-> 255, set |-> 0],
       [n |-> 1, shift |-> 24, mask |-> 255, set |-> 0],
       [n |-> 2, shift |-> 0, mask |-> 255, set |-> 0],
       [n |-> 2, shift |-> 8, mask |-> 255, set |-> 0],
       [n |-> 2, shift |-> 16, mask |-> 15, set |-> 64],
       [n |-> 2, shift |-> 24, mask |-> 255, set |-> 0],
       [n |-> 3, shift |-> 0, mask |-> 63, set |-> 128],
       [n |-> 3, shift |-> 8, mask |-> 255, set |-> 0],
       [n |-> 3, shift |-> 16, mask |-> 255, set |-> 0],
       [n |-> 3, shift |-> 24, mask |-> 255, set |-> 0],
       [n |-> 4, shift |-> 0, mask |-> 255, set |-> 0],
       [n |-> 4, shift |-> 8, mask |-> 255, set |-> 0],
       [n |-> 4, shift |-> 16, mask |-> 255, set |-> 0],
       [n |-> 4, shift |-> 24, mask |-> 255, set |-> 0] >>

\* the index entry e computes from the four values
indexOf(vals, e) ==
    ToNumber(BitOr(BitAnd(Sar(Bits(vals[e.n]), e.shift), Lit(e.mask)), Lit(e.set)))

\* const s = [...]: the five groups made of the sixteen table entries v
groups(v) ==
    << v[1] \o v[2] \o v[3] \o v[4],
       v[5] \o v[6],
       v[7] \o v[8],
       v[9] \o v[10],
       v[11] \o v[12] \o v[13] \o v[14] \o v[15] \o v[16] >>

\* const uuid = `${s[0]}-${s[1]}-${s[2]}-${s[3]}-${s[4]}`
joined(s) == s[1] \o Hyphen \o s[2] \o Hyphen \o s[3] \o Hyphen \o s[4] \o Hyphen \o s[5]

formatUid(vals) ==
    joined(groups([j \in 1..16 |-> lookup(indexOf(vals, indexes[j]))]))

----------------------------------------------------------------------------
(* Letter case. *)

UpperOf == [c \in {"a", "b", "c", "d", "e", "f"} |->
              CASE c = "a" -> "A" [] c = "b" -> "B" [] c = "c" -> "C"
                [] c = "d" -> "D" [] c = "e" -> "E" [] c = "f" -> "F"]

\* a match without the i flag: every character stands for itself
CanonNone(c) == c

\* canonicalisation of a character under the i flag
Canon(c) == IF c \in DOMAIN UpperOf THEN UpperOf[c] ELSE c

----------------------------------------------------------------------------
(* Values the model draws from. *)

\* 32-bit values the random source may return, some of 2^31 or more
Words == { <<0, 0, 0, 0>>, <<255, 255, 255, 255>>, <<128, 0, 0, 1>>,
           <<18, 52, 86, 120>>, <<0, 79, 10, 200>>,
           <<0, 15, 10, 200>>, <<128, 0, 0, 193>> }

\* the same values, numbered
WordSeq == << <<0, 0, 0, 0>>, <<255, 255, 255, 255>>, <<128, 0, 0, 1>>,
             <<18, 52, 86, 120>>, <<0, 79, 10, 200>>,
             <<0, 15, 10, 200>>, <<128, 0, 0, 193>> >>

\* the k-th 4-tuple of these values
tupleAt(k) == [n \in 1..4 |-> WordSeq[((k \div (Len(WordSeq) ^ (n - 1))) % Len(WordSeq)) + 1]]

\* the numbers of the 4-tuples
Tuples == 0..(Len(WordSeq) ^ 4 - 1)

\* 'AA97B177-9383-4934-8543-0F91A7A02836'
validUID == "AA97B177-9383-4934-8543-0F91A7A02836"

\* the characters the failing cases put in place of one character
ReplaceChars == {"-", "_", "G", "g", "Z", "#", "4", "8", "0", "a", "C", "b", "9"}

\* str with its p-th character replaced by c
ReplaceAt(str, p, c) == SubSeq(str, 1, p - 1) \o c \o SubSeq(str, p + 1, Len(str))

lowerUID == formatUid(<< <<18, 52, 86, 120>>, <<0, 79, 10, 200>>,
                         <<128, 0, 0, 1>>, <<255, 255, 255, 255>> >>)

\* single strings handed to validate
SingleInputs ==
    {ReplaceAt(validUID, p, c) : p \in 1..36, c \in ReplaceChars}
    \cup {validUID, lowerUID, "", SubSeq(validUID, 1, 35), SubSeq(validUID, 2, 36),
          validUID \o "0", "0" \o validUID, validUID \o "\n"}

\* strings the lists handed to validate are made of
ListStrings == {validUID, lowerUID, ReplaceAt(validUID, 15, "5"), "1"}

\* the 4-tuples getRandomValues may return in this model
RandTuples ==
    { << <<18, 52, 86, 120>>, <<0, 79, 10, 200>>, <<128, 0, 0, 1>>, <<255, 255, 255, 255>> >>,
      << <<0, 0, 0, 0>>, <<0, 0, 0, 0>>, <<0, 0, 0, 0>>, <<0, 0, 0, 0>> >>,
      << <<255, 255, 255, 255>>, <<255, 255, 255, 255>>, <<255, 255, 255, 255>>,
         <<255, 255, 255, 255>> >> }

\* gen(): the strings formatUid(getRandomValues()) can be
gen == {formatUid(t) : t \in RandTuples}

RECURSIVE toUpperCase(_)
toUpperCase(str) ==
    IF Len(str) = 0 THEN ""
    ELSE IF Len(str) = 1 THEN (IF str \in DOMAIN UpperOf THEN UpperOf[str] ELSE str)
    ELSE LET mid == Len(str) \div 2
         IN  toUpperCase(SubSeq(str, 1, mid)) \o toUpperCase(SubSeq(str, mid + 1, Len(str)))

\* an identifier generate() can return, in upper case (valid, another string)
upperUID == toUpperCase(lowerUID)

\* another identifier generate() can return
zeroUID == formatUid([n \in 1..4 |-> <<0, 0, 0, 0>>])

\* a string that is no identifier
badUID == "1"

\* strings a caller hands to the generator (constructor, setExisting)
CallerStrings == {lowerUID, upperUID, badUID}

\* every string the generator and the manager models handle
KnownStrings == SingleInputs \cup ListStrings \cup gen \cup CallerStrings

----------------------------------------------------------------------------
(* KDUID: validator.  Every atom of the regular expression is a character   *)
(* class with a fixed number of repetitions, so between ^ and $ each atom   *)
(* takes fixed positions of the string; the i flag compares upper-cased     *)
(* (the classes are written in upper case).                                 *)

HexClass == {"0", "1", "2", "3", "4", "5", "6", "7", "8", "9",
             "A", "B", "C", "D", "E", "F"}

\* /^[0-9A-F]{8}-[0-9A-F]{4}-4[0-9A-F]{3}-[89AB][0-9A-F]{3}-[0-9A-F]{12}$/i
re == { [cls |-> HexClass, from |-> 1, to |-> 8],
        [cls |-> {"-"}, from |-> 9, to |-> 9],
        [cls |-> HexClass, from |-> 10, to |-> 13],
        [cls |-> {"-"}, from |-> 14, to |-> 14],
        [cls |-> {"4"}, from |-> 15, to |-> 15],
        [cls |-> HexClass, from |-> 16, to |-> 18],
        [cls |-> {"-"}, from |-> 19, to |-> 19],
        [cls |-> {"8", "9", "A", "B"}, from |-> 20, to |-> 20],
        [cls |-> HexClass, from |-> 21, to |-> 23],
        [cls |-> {"-"}, from |-> 24, to |-> 24],
        [cls |-> HexClass, from |-> 25, to |-> 36] }

\* the length of the strings the expression matches
reLength == 36

\* whether the whole string matches the expression
Matches(str) ==
    /\ Len(str) = reLength
    /\ \A atom \in re : \A p \in atom.from..atom.to : Canon(Ch(str, p)) \in atom.cls

\* re.test over the strings the models handle, computed once
tested == [uid \in KnownStrings |-> Matches(uid)]

\* re.test(uid)
test(uid) == IF uid \in DOMAIN tested THEN tested[uid] ELSE Matches(uid)

\* a validator that stops at the first string
validatorFirstOnly(isArray, uuids) ==
    LET arr == IF isArray THEN uuids ELSE <<uuids>>
    IN  IF arr # <<>> /\ test(arr[1]) THEN <<arr[1]>> ELSE <<>>

\* validator(uuids): uuids is one string (isArray FALSE) or a list of strings
validator(isArray, uuids) ==
    LET arr == IF isArray THEN uuids ELSE <<uuids>>
    IN  SelectSeq(arr, test)

----------------------------------------------------------------------------
(* formatUid applied to the values getRandomValues returned. *)

NoLast == [op |-> "none"]

\* formatUid of every tuple getRandomValues may return here, by its number
formatted == [k \in Tuples |-> formatUid(tupleAt(k))]

InitFormat ==
    /\ values \in [1..4 -> Words]
    /\ uuid = ""
    /\ last = NoLast
    /\ generated = <<>> /\ map = <<>> /\ issued = <<>> /\ seeded = <<>>
    /\ installed = <<>> /\ sinceSet = <<>> /\ input = <<>> /\ output = <<>>

Format ==
    /\ last.op = "none"
    /\ uuid' = formatUid(values)
    /\ last' = [op |-> "formatUid"]
    /\ UNCHANGED <<values, generated, map, issued, seeded, installed, sinceSet,
                   input, output>>

NextFormat == Format

SpecFormat == InitFormat /\ [][NextFormat]_vars

----------------------------------------------------------------------------
(* validate applied to one string or to a list of strings. *)

InitValidate ==
    /\ input \in [isArray : {FALSE}, uuids : SingleInputs]
                 \cup [isArray : {TRUE}, uuids : SeqsUpTo(ListStrings, MaxList)]
    /\ output = <<>>
    /\ last = NoLast
    /\ generated = <<>> /\ map = <<>> /\ issued = <<>> /\ seeded = <<>>
    /\ installed = <<>> /\ sinceSet = <<>> /\ values = <<>> /\ uuid = ""

Validate ==
    /\ last.op = "none"
    /\ output' = validator(input.isArray, input.uuids)
    /\ last' = [op |-> "validate"]
    /\ UNCHANGED <<input, generated, map, issued, seeded, installed, sinceSet,
                   values, uuid>>

NextValidate == Validate

SpecValidate == InitValidate /\ [][NextValidate]_vars

----------------------------------------------------------------------------
(* The v4 format, position by position. *)

LowerHex == {"0", "1", "2", "3", "4", "5", "6", "7", "8", "9",
             "a", "b", "c", "d", "e", "f"}

AnyHex == LowerHex \cup {"A", "B", "C", "D", "E", "F"}

HyphenAt == {9, 14, 19, 24}

\* hyphens at 9, 14, 19, 24, hexadecimal digits elsewhere, '4' as the 15th
\* character and one of 8, 9, A, B (either case) as the 20th
IsV4(str) ==
    /\ Len(str) = 36
    /\ \A p \in 1..36 :
          IF p \in HyphenAt THEN Ch(str, p) = "-" ELSE Ch(str, p) \in AnyHex
    /\ Ch(str, 15) = "4"
    /\ Ch(str, 20) \in {"8", "9", "A", "B", "a", "b"}

\* C6: for every 4-tuple of 32-bit values the string formatUid returns has 36
\* characters, hyphens after groups of 8, 4, 4, 4 (and 12) lowercase hexadecimal
\* digits, '4' first in the third group and one of 8, 9, a, b first in the
\* fourth, and validate accepts it.
C6_FormatIsV4 ==
    last.op = "formatUid" =>
        /\ Len(uuid) = 36
        /\ \A p \in 1..36 :
              IF p \in HyphenAt THEN Ch(uuid, p) = "-" ELSE Ch(uuid, p) \in LowerHex
        /\ Ch(uuid, 15) = "4"
        /\ Ch(uuid, 20) \in {"8", "9", "a", "b"}
        /\ validator(FALSE, uuid) = <<uuid>>

\* C6 witness: values of 2^31 or more, whose version and variant bits are all
\* set, have been formatted.
C6_Witness ==
    /\ last.op = "formatUid"
    /\ \A n \in 1..4 : values[n] = <<255, 255, 255, 255>>
    /\ Ch(uuid, 15) = "4" /\ Ch(uuid, 20) = "b"

\* the list a validate argument stands for
AsList(in) == IF in.isArray THEN in.uuids ELSE <<in.uuids>>

\* C7: validate returns exactly the input strings that match the v4 format, in
\* their original order and with duplicates kept; a single string counts as a
\* one-element list.
C7_ValidateSubsequence ==
    last.op = "validate" =>
        LET arr == AsList(input)
            idx == {i \in 1..Len(arr) : IsV4(arr[i])}
            nth(k) == CHOOSE i \in idx : Cardinality({j \in idx : j <= i}) = k
        IN  /\ Len(output) = Cardinality(idx)
            /\ \A k \in 1..Len(output) : output[k] = arr[nth(k)]
            /\ (~input.isArray /\ IsV4(input.uuids)) => output = <<input.uuids>>
            /\ (~input.isArray /\ ~IsV4(input.uuids)) => output = <<>>

\* C7 witness: a mixed list holding a valid string twice around an invalid one
\* was validated, and both copies came back in order.
C7_Witness ==
    /\ last.op = "validate"
    /\ input.isArray
    /\ input.uuids = <<lowerUID, "1", lowerUID>>
    /\ output = <<lowerUID, lowerUID>>

\* whether putting c at position p breaks one of the conditions of the format
Breaks(p, c) ==
    \/ p \in HyphenAt /\ c # "-"
    \/ p \notin HyphenAt /\ c \notin AnyHex
    \/ p = 15 /\ c # "4"
    \/ p = 20 /\ c \notin {"8", "9", "A", "B", "a", "b"}

\* C8: validate accepts a string iff it has the v4 shape (hyphens at 9, 14, 19,
\* 24, hexadecimal digits of either case elsewhere, '4' at 15, one of 8 9 A B of
\* either case at 20); a valid identifier with one character replaced so as to
\* break one of these is rejected.
C8_ValidateIffV4 ==
    (last.op = "validate" /\ ~input.isArray) =>
        /\ (output # <<>>) <=> IsV4(input.uuids)
        /\ \A p \in 1..36, c \in ReplaceChars :
              (input.uuids = ReplaceAt(validUID, p, c) /\ Breaks(p, c)) => output = <<>>

\* C8 witness: the valid identifier with its version character replaced by
\* another hexadecimal digit was rejected.
C8_Witness ==
    /\ last.op = "validate"
    /\ ~input.isArray
    /\ input.uuids = ReplaceAt(validUID, 15, "8")
    /\ output = <<>>

----------------------------------------------------------------------------
(* KDUID: one generator, driven by generate and setExisting. *)

\* a loop that compares without regard to letter case
acceptsAnyCase(existing, uid) ==
    \A i \in 1..Len(existing) : toUpperCase(existing[i]) # toUpperCase(uid)

\* a loop that takes no candidate
acceptsNever(existing, uid) == FALSE

\* a loop that ends with whatever was drawn
acceptsAny(existing, uid) == TRUE

\* generate: the loop ends with the first drawn candidate that is not in generated
accepts(existing, uid) == uid \notin Range(existing)

\* the returned identifier put in front of the list
pushedFront(existing, uid) == <<uid>> \o existing

\* generate() returning uid: generated.push(uid)
pushed(existing, uid) == Append(existing, uid)

setExistingAny(existing, uuids) == [generated |-> uuids, result |-> TRUE]

\* setExisting(uuids): the new list and the value returned
setExisting(existing, uuids) ==
    LET validated == validator(TRUE, uuids)
    IN  IF Len(validated) = Len(uuids)
        THEN [generated |-> uuids, result |-> TRUE]
        ELSE [generated |-> existing, result |-> FALSE]

\* KDUID(uuids): generated = uuids || []
InitGen ==
    /\ seeded \in SeqsUpTo(CallerStrings, 1) \cup {<<lowerUID, lowerUID>>}
    /\ generated = seeded
    /\ installed = seeded
    /\ issued = <<>>
    /\ sinceSet = <<>>
    /\ last = NoLast
    /\ map = <<>> /\ values = <<>> /\ uuid = "" /\ input = <<>> /\ output = <<>>

\* the call `last` records has returned and its caller goes on
Return ==
    /\ last.op # "none"
    /\ last' = NoLast
    /\ UNCHANGED <<generated, map, issued, seeded, installed, sinceSet,
                   values, uuid, input, output>>

Generate ==
    /\ last.op = "none"
    /\ Len(issued) < MaxCalls
    /\ \E uid \in gen :
          /\ accepts(generated, uid)
          /\ generated' = pushed(generated, uid)
          /\ issued' = Append(issued, uid)
          /\ sinceSet' = Append(sinceSet, uid)
          /\ last' = [op |-> "generate", arg |-> <<>>, pre |-> generated,
                      result |-> uid]
    /\ UNCHANGED <<seeded, installed, map, values, uuid, input, output>>

SetExisting ==
    /\ last.op = "none"
    /\ \E uuids \in SeqsUpTo(CallerStrings, MaxCandidates) :
          \E r \in {setExisting(generated, uuids)} :
              /\ generated' = r.generated
              /\ installed' = IF r.result THEN uuids ELSE installed
              /\ sinceSet' = IF r.result THEN <<>> ELSE sinceSet
              /\ last' = [op |-> "setExisting", arg |-> uuids, pre |-> generated,
                          result |-> r.result]
    /\ UNCHANGED <<issued, seeded, map, values, uuid, input, output>>

\* the calls of validate and getExisting made on the generator
GeneratorQueries == ({"validate"} \X CallerStrings) \cup {<<"getExisting", "">>}

\* a query that forgets the seen-list
queryGeneratorReset(existing, name, arg) == [generated |-> <<>>, result |-> <<>>]

\* validate(arg) or getExisting() on a generator: its list and the value returned
queryGenerator(existing, name, arg) ==
    [generated |-> existing,
     result |-> IF name = "validate" THEN validator(FALSE, arg) ELSE existing]

QueryGenerator ==
    /\ last.op = "none"
    /\ \E q \in GeneratorQueries :
          \E r \in {queryGenerator(generated, q[1], q[2])} :
              /\ generated' = r.generated
              /\ last' = [op |-> q[1], arg |-> q[2], result |-> r.result,
                          pre |-> generated, preMap |-> map, preGenerated |-> generated]
    /\ UNCHANGED <<map, issued, seeded, installed, sinceSet, values, uuid, input, output>>

NextGen == Generate \/ SetExisting \/ QueryGenerator \/ Return

SpecGen == InitGen /\ [][NextGen]_vars

----------------------------------------------------------------------------
(* generate() step by step: the while loop draws a candidate at each round. *)

\* the list does not hold every identifier the random source can give (the
\* source has 2^122 of them, more than an array can hold)
FreshLeft == \E u \in gen : u \notin Range(generated)

\* generate() is called: let uid = null
StartGenerate ==
    /\ last.op = "none"
    /\ Len(issued) < MaxCalls
    /\ FreshLeft
    /\ uuid' = ""
    /\ last' = [op |-> "while", pre |-> generated, rejected |-> FALSE]
    /\ UNCHANGED <<generated, map, issued, seeded, installed, sinceSet,
                   values, input, output>>

\* one round of while (!uid || generated.includes(uid)) uid = gen(), gen()
\* giving u
Draw(u) ==
    /\ last.op = "while"
    /\ uuid = "" \/ ~accepts(generated, uuid)
    /\ uuid' = u
    /\ last' = [last EXCEPT !.rejected = @ \/ uuid # ""]
    /\ UNCHANGED <<generated, map, issued, seeded, installed, sinceSet,
                   values, input, output>>

\* the loop has ended: generated.push(uid); return uid
EndGenerate ==
    /\ last.op = "while"
    /\ uuid # "" /\ accepts(generated, uuid)
    /\ generated' = pushed(generated, uuid)
    /\ issued' = Append(issued, uuid)
    /\ sinceSet' = Append(sinceSet, uuid)
    /\ last' = [op |-> "generate", arg |-> <<>>, pre |-> generated,
                result |-> uuid, rejected |-> last.rejected]
    /\ UNCHANGED <<uuid, seeded, installed, map, values, input, output>>

\* a call that is not in its loop has returned
ReturnLive == last.op # "while" /\ Return

NextLive ==
    \/ StartGenerate
    \/ \E u \in gen : Draw(u)
    \/ EndGenerate
    \/ SetExisting
    \/ ReturnLive

\* the random source is fair: every identifier keeps being drawn; the program
\* goes on when it can
SpecLive ==
    /\ InitGen
    /\ [][NextLive]_vars
    /\ \A u \in gen : WF_vars(Draw(u))
    /\ WF_vars(EndGenerate)

\* a generator on which setExisting was never called
NeverSet == installed = seeded /\ sinceSet = issued

\* C4: a generate() call returns an identifier that was not in the seen-set
\* when the call started; with no setExisting in between, the identifiers
\* returned are pairwise distinct and none is in the list the generator was
\* constructed with.
C4_GenerateFresh ==
    /\ last.op = "generate" => last.result \notin Range(last.pre)
    /\ NoDuplicates(sinceSet)
    /\ NeverSet => /\ NoDuplicates(issued)
                   /\ Range(issued) \cap Range(seeded) = {}

\* C4 witness: a generator constructed with an identifier has returned two
\* others with no setExisting in between.
C4_Witness ==
    /\ last.op = "generate"
    /\ seeded = <<lowerUID>>
    /\ NeverSet
    /\ Len(issued) = 2

\* C5 as claimed: over the whole lifetime, whatever setExisting calls come in
\* between, generate() never returns a string it returned before or that was in
\* the list the generator was constructed with.
C5_LifetimeUnique ==
    /\ NoDuplicates(issued)
    /\ Range(issued) \cap Range(seeded) = {}

\* C5 as amended: generate() never returns a string it returned since the last
\* successful setExisting (or the construction), nor one in the list that call
\* installed; a failed setExisting changes nothing of this.
C5_UniqueSinceInstalled ==
    /\ NoDuplicates(sinceSet)
    /\ Range(sinceSet) \cap Range(installed) = {}
    /\ generated = installed \o sinceSet

\* C5 witness: after a successful setExisting dropped an identifier generate()
\* had returned, generate() has returned again.
C5_Witness ==
    /\ last.op = "generate"
    /\ Len(issued) >= 2
    /\ Len(sinceSet) = 1
    /\ installed # seeded

\* C9: setExisting is all-or-nothing: with every candidate a v4 identifier it
\* returns true and the seen-set is the candidate list, element for element;
\* with any invalid candidate it returns false and the seen-set is what it was.
C9_SetExistingAllOrNothing ==
    last.op = "setExisting" =>
        IF \A i \in 1..Len(last.arg) : IsV4(last.arg[i])
        THEN last.result = TRUE /\ generated = last.arg
        ELSE last.result = FALSE /\ generated = last.pre

\* C9 witness: a list with one invalid candidate after a valid one was refused
\* by a generator whose seen-set was not empty.
C9_Witness ==
    /\ last.op = "setExisting"
    /\ last.arg = <<upperUID, badUID>>
    /\ last.result = FALSE
    /\ generated # <<>>
    /\ generated # last.arg

\* C9 witness of the other case: a valid list replaced a different seen-set.
C9_WitnessAccepted ==
    /\ last.op = "setExisting"
    /\ last.result = TRUE
    /\ last.pre # last.arg
    /\ Len(last.arg) = 2

----------------------------------------------------------------------------
(* KDUIDManager: self.map is a Map, here the sequence of its entries        *)
(* <<key, value>> in insertion order; self.generator is `generated`.        *)

\* the entities callers associate identifiers with
Entities == {"e1", "e2"}

\* the identifier strings callers hand to the manager: what entries() of a
\* manager can hold, and strings of the callers' own
EntryUids == CallerStrings \cup {zeroUID}

\* an element of the setEntries argument that is not iterable (null)
NotIterable == <<"null">>

\* the elements of the arrays callers hand to setEntries
EntryElements == (Entities \X EntryUids) \cup {NotIterable}

\* setEntries returning false
ReturnedFalse == [returned |-> FALSE]

\* map.has(key)
mapHas(m, key) == \E i \in 1..Len(m) : m[i][1] = key

\* map.get(key), for a key the map has
mapGet(m, key) == m[CHOOSE i \in 1..Len(m) : m[i][1] = key][2]

\* a delete that empties the map
mapClear(m, key) == <<>>

\* a delete that leaves the map as it is
mapKeep(m, key) == m

\* map.delete(key)
mapDelete(m, key) == SelectSeq(m, LAMBDA e : e[1] # key)

\* an entry put in front of the others, whatever the map has
mapSetFront(m, key, value) == <<<<key, value>>>> \o m

\* map.set(key, value): a key the map has keeps its place
mapSet(m, key, value) ==
    IF mapHas(m, key)
    THEN [i \in 1..Len(m) |-> IF m[i][1] = key THEN <<key, value>> ELSE m[i]]
    ELSE Append(m, <<key, value>>)

\* Array.from(map.keys())
keys(m) == [i \in 1..Len(m) |-> m[i][1]]

\* Array.from(map.values())
uids(m) == [i \in 1..Len(m) |-> m[i][2]]

\* Array.from(map.entries())
entriesArray(m) == [i \in 1..Len(m) |-> <<m[i][1], m[i][2]>>]

\* hasUIDFor(target)
hasUIDFor(m, target) == mapHas(m, target)

\* getUIDFor(target), for a target that has an identifier
getUIDFor(m, target) == mapGet(m, target)

\* hasKeyFor(uid)
hasKeyFor(m, uid) == \E i \in 1..Len(m) : uids(m)[i] = uid

\* getKeyFor(uid), for an identifier that has a key: the first entry's key
getKeyFor(m, uid) ==
    m[CHOOSE i \in 1..Len(m) :
         /\ m[i][2] = uid
         /\ \A j \in 1..(i - 1) : m[j][2] # uid][1]

\* updateGenerator(): the generator's list and what setExisting returned
updateGenerator(m, existing) == setExisting(existing, uids(m))

\* a generateUIDFor that keeps the target's association alone
generateUIDForAlone(m, existing, target, uid) ==
    [map |-> <<<<target, uid>>>>, generated |-> pushed(existing, uid), result |-> uid]

\* generateUIDFor(target), generate() having returned uid
generateUIDFor(m, existing, target, uid) ==
    [map |-> mapSet(IF mapHas(m, target) THEN mapDelete(m, target) ELSE m, target, uid),
     generated |-> pushed(existing, uid),
     result |-> uid]

\* ToBoolean of an array: an array is an object, and every object is truthy
ToBoolean(array) == TRUE

\* one round of entries.forEach in setEntries, from state st: the states it
\* can end in (one for each identifier generate() can return)
handleEntry(st, entry) ==
    IF st.fault THEN {st}
    ELSE IF entry = NotIterable THEN {[st EXCEPT !.fault = TRUE]}
    ELSE
    LET key == entry[1]
        uid == entry[2]
        isValidUID == validator(FALSE, uid)
    IN  IF ~ToBoolean(isValidUID)
        THEN {[st EXCEPT !.invalid = Append(@, entry)]}
        ELSE IF uid \in Range(uids(st.map))
        THEN {[st EXCEPT !.map = g.map,
                         !.generated = g.generated,
                         !.changed = Append(@, <<key, g.result>>),
                         !.calls = Append(@, [target |-> key, map |-> st.map,
                                              generated |-> st.generated,
                                              uid |-> g.result])]
              : g \in {generateUIDFor(st.map, st.generated, key, new) :
                          new \in {u \in gen : accepts(st.generated, u)}}}
        ELSE {[st EXCEPT !.map = mapSet(@, key, uid)]}

RECURSIVE forEach(_, _, _)
forEach(entries, i, st) ==
    IF i > Len(entries) THEN {st}
    ELSE UNION {forEach(entries, i + 1, st2) : st2 \in handleEntry(st, entries[i])}

\* setEntries without its catch clause: the report, whatever forEach met
finishedNoCatch(st) ==
    [map |-> st.map, generated |-> st.generated,
     result |-> [changed |-> st.changed, invalid |-> st.invalid], calls |-> st.calls]

\* what setEntries ends with from the state forEach left: false from the
\* catch clause, the report after updateGenerator otherwise
finished(st) ==
    IF st.fault
    THEN [map |-> st.map, generated |-> st.generated, result |-> ReturnedFalse,
          calls |-> st.calls]
    ELSE [map |-> st.map,
          generated |-> updateGenerator(st.map, st.generated).generated,
          result |-> [changed |-> st.changed, invalid |-> st.invalid],
          calls |-> st.calls]

\* setEntries without map.clear(): the pairs are added to what the map holds
setEntriesKeep(m, existing, entries) ==
    {finished(st) : st \in forEach(entries, 1,
                        [map |-> m, generated |-> existing, changed |-> <<>>,
                         invalid |-> <<>>, calls |-> <<>>, fault |-> FALSE])}

\* setEntries(entries) for an array: the states it can end in
setEntries(m, existing, entries) ==
    LET cleared == [map |-> <<>>, generated |-> existing, changed |-> <<>>,
                    invalid |-> <<>>, calls |-> <<>>, fault |-> FALSE]
    IN  {finished(st) : st \in forEach(entries, 1, cleared)}

\* setEntries(entries) for an argument that is not an array
setEntriesNotArray(m, existing) ==
    [map |-> m, generated |-> existing, result |-> ReturnedFalse, calls |-> <<>>]

\* a deleteEntryForUID that resynchronizes the generator when nothing matched
deleteEntryForUIDSync(m, existing, uid) ==
    IF hasKeyFor(m, uid)
    THEN [map |-> mapDelete(m, getKeyFor(m, uid)), generated |-> existing, result |-> TRUE]
    ELSE [map |-> m, generated |-> updateGenerator(m, existing).generated,
          result |-> FALSE]

\* deleteEntryForUID(uid)
deleteEntryForUID(m, existing, uid) ==
    IF hasKeyFor(m, uid)
    THEN LET after == mapDelete(m, getKeyFor(m, uid))
         IN  [map |-> after, generated |-> updateGenerator(after, existing).generated,
              result |-> TRUE]
    ELSE [map |-> m, generated |-> existing, result |-> FALSE]

\* deleteEntryForKey(target)
deleteEntryForKey(m, existing, target) ==
    IF mapHas(m, target)
    THEN LET after == mapDelete(m, target)
         IN  [map |-> after, generated |-> updateGenerator(after, existing).generated,
              result |-> TRUE]
    ELSE [map |-> m, generated |-> existing, result |-> FALSE]

\* a reset that leaves the generator alone
resetKeep(m, existing) == [map |-> <<>>, generated |-> existing]

\* reset()
reset(m, existing) ==
    [map |-> <<>>, generated |-> updateGenerator(<<>>, existing).generated]

\* the calls of the manager's queries
ManagerQueries ==
    ({"hasUIDFor", "getUIDFor"} \X Entities)
    \cup ({"hasKeyFor", "getKeyFor"} \X EntryUids)
    \cup ({"keys", "uids", "entries"} \X {""})

\* a query that empties the map
queryReset(m, existing, name, arg) ==
    [map |-> <<>>, generated |-> existing, result |-> Undefined]

\* a query of the manager: the map, the generator's list and the value returned
query(m, existing, name, arg) ==
    [map |-> m,
     generated |-> existing,
     result |-> CASE name = "hasUIDFor" -> hasUIDFor(m, arg)
                  [] name = "getUIDFor" ->
                        IF mapHas(m, arg) THEN getUIDFor(m, arg) ELSE Undefined
                  [] name = "hasKeyFor" -> hasKeyFor(m, arg)
                  [] name = "getKeyFor" ->
                        IF hasKeyFor(m, arg) THEN getKeyFor(m, arg) ELSE Undefined
                  [] name = "keys" -> keys(m)
                  [] name = "uids" -> uids(m)
                  [] name = "entries" -> entriesArray(m)]

\* what `last` records of an operation of the manager
Op(name, target, uid, entries, result, calls) ==
    [op |-> name, target |-> target, uid |-> uid, entries |-> entries,
     result |-> result, calls |-> calls, preMap |-> map, preGenerated |-> generated,
     isArray |-> TRUE]

\* KDUIDManager(): generator: KDUID(), map: new Map()
Init ==
    /\ map = <<>>
    /\ generated = <<>>
    /\ last = NoLast
    /\ issued = <<>> /\ seeded = <<>> /\ installed = <<>> /\ sinceSet = <<>>
    /\ values = <<>> /\ uuid = "" /\ input = <<>> /\ output = <<>>

others == <<issued, seeded, installed, sinceSet, values, uuid, input, output>>

GenerateUIDFor ==
    /\ last.op = "none"
    /\ \E target \in Entities, uid \in gen :
          /\ accepts(generated, uid)
          /\ \E g \in {generateUIDFor(map, generated, target, uid)} :
                 /\ map' = g.map
                 /\ generated' = g.generated
                 /\ last' = Op("generateUIDFor", target, "", <<>>, g.result,
                               << [target |-> target, map |-> map,
                                   generated |-> generated, uid |-> uid] >>)
    /\ UNCHANGED others

SetEntries ==
    /\ last.op = "none"
    /\ \/ \E entries \in SeqsUpTo(EntryElements, MaxEntries) :
             \E r \in setEntries(map, generated, entries) :
                 /\ map' = r.map
                 /\ generated' = r.generated
                 /\ last' = Op("setEntries", "", "", entries, r.result, r.calls)
       \/ \E r \in {setEntriesNotArray(map, generated)} :
             /\ map' = r.map
             /\ generated' = r.generated
             /\ last' = [Op("setEntries", "", "", <<>>, r.result, r.calls)
                            EXCEPT !.isArray = FALSE]
    /\ UNCHANGED others

DeleteEntryForUID ==
    /\ last.op = "none"
    /\ \E uid \in EntryUids :
          \E r \in {deleteEntryForUID(map, generated, uid)} :
              /\ map' = r.map
              /\ generated' = r.generated
              /\ last' = Op("deleteEntryForUID", "", uid, <<>>, r.result, <<>>)
    /\ UNCHANGED others

DeleteEntryForKey ==
    /\ last.op = "none"
    /\ \E target \in Entities :
          \E r \in {deleteEntryForKey(map, generated, target)} :
              /\ map' = r.map
              /\ generated' = r.generated
              /\ last' = Op("deleteEntryForKey", target, "", <<>>, r.result, <<>>)
    /\ UNCHANGED others

Query ==
    /\ last.op = "none"
    /\ \E q \in ManagerQueries :
          \E r \in {query(map, generated, q[1], q[2])} :
              /\ map' = r.map
              /\ generated' = r.generated
              /\ last' = Op(q[1], q[2], q[2], <<>>, r.result, <<>>)
    /\ UNCHANGED others

Reset ==
    /\ last.op = "none"
    /\ \E r \in {reset(map, generated)} :
          /\ map' = r.map
          /\ generated' = r.generated
          /\ last' = Op("reset", "", "", <<>>, FALSE, <<>>)
    /\ UNCHANGED others

Next ==
    \/ GenerateUIDFor
    \/ SetEntries
    \/ DeleteEntryForUID
    \/ DeleteEntryForKey
    \/ Reset
    \/ Query
    \/ QueryGenerator
    \/ Return

Spec == Init /\ [][Next]_vars

\* C1: in every state the manager's operations reach, the identifiers held in
\* the map are pairwise distinct: no two entities map to the same string.
C1_ValuesDistinct == NoDuplicates(uids(map))

\* C2: in every state the manager's operations reach, every value stored in
\* the map is a v4 identifier, one the generator's validate accepts.
C2_ValuesValid ==
    \A i \in 1..Len(map) :
        /\ IsV4(map[i][2])
        /\ validator(FALSE, map[i][2]) = <<map[i][2]>>

\* C3: generateUIDFor never returns an identifier that is associated with an
\* entity in the map when the call is made; whenever generate runs, every
\* identifier in the map is a member of the generator's seen-list.
C3_GenerateAvoidsMap ==
    last.op \in {"generateUIDFor", "setEntries"} =>
        \A i \in 1..Len(last.calls) :
            /\ last.calls[i].uid \notin Range(uids(last.calls[i].map))
            /\ Range(uids(last.calls[i].map)) \subseteq Range(last.calls[i].generated)

\* C10: generateUIDFor on an entity that has an identifier leaves hasUIDFor
\* true for it, makes getUIDFor return the identifier returned, which differs
\* from the old one, and getKeyFor of the old one no longer returns the entity.
C10_OverwriteDiffers ==
    (last.op = "generateUIDFor" /\ mapHas(last.preMap, last.target)) =>
        /\ hasUIDFor(map, last.target)
        /\ getUIDFor(map, last.target) = last.result
        /\ last.result # mapGet(last.preMap, last.target)
        /\ hasKeyFor(map, mapGet(last.preMap, last.target)) =>
               getKeyFor(map, mapGet(last.preMap, last.target)) # last.target

\* C11: in every state the manager reaches the association reads both ways:
\* for every entity that has an identifier getKeyFor(getUIDFor(e)) is e, and
\* for every identifier that has a key getUIDFor(getKeyFor(u)) is u.
C11_Bidirectional ==
    /\ \A i \in 1..Len(map) :
          getKeyFor(map, getUIDFor(map, map[i][1])) = map[i][1]
    /\ \A u \in EntryUids \cup gen :
          hasKeyFor(map, u) => getUIDFor(map, getKeyFor(map, u)) = u

\* setEntries was called with an array and returned a report
Reported == last.op = "setEntries" /\ last.isArray /\ last.result # ReturnedFalse

\* C12: every pair of the setEntries input whose identifier is not a v4
\* identifier is recorded in `invalid` and is not inserted in the map; pairs
\* with a valid identifier are never recorded in `invalid`.
C12_InvalidRecorded ==
    Reported =>
        \A i \in 1..Len(last.entries) :
            IF IsV4(last.entries[i][2])
            THEN last.entries[i] \notin Range(last.result.invalid)
            ELSE /\ last.entries[i] \in Range(last.result.invalid)
                 /\ last.entries[i] \notin Range(map)

\* C13: an entity whose pair carried an identifier already among the values
\* inserted so far gets a generated identifier, recorded with the entity in
\* `changed`, and that identifier differs from every other value in the map
\* when setEntries returns.
C13_DuplicateReplaced ==
    Reported =>
        /\ Len(last.result.changed) = Len(last.calls)
        /\ \A i \in 1..Len(last.calls) :
              /\ last.result.changed[i] = <<last.calls[i].target, last.calls[i].uid>>
              /\ \A j \in 1..Len(map) :
                    map[j][1] # last.calls[i].target => map[j][2] # last.calls[i].uid

\* pairs with pairwise distinct entities and valid, pairwise distinct identifiers
DistinctValid(entries) ==
    /\ \A i \in 1..Len(entries) : entries[i] # NotIterable /\ IsV4(entries[i][2])
    /\ NoDuplicates(keys(entries))
    /\ NoDuplicates(uids(entries))

\* C14: on a manager in any state, setEntries of pairs with pairwise distinct
\* entities and valid, pairwise distinct identifiers returns `changed` and
\* `invalid` empty, and entries() is then the input, pair for pair, in order.
C14_RoundTrip ==
    (last.op = "setEntries" /\ last.isArray /\ DistinctValid(last.entries)) =>
        /\ last.result = [changed |-> <<>>, invalid |-> <<>>]
        /\ map = last.entries

\* C14 witness: a manager holding two associations was given two pairs of
\* generated identifiers, the entities in the other order.
C14_Witness ==
    /\ last.op = "setEntries" /\ last.isArray
    /\ Len(last.preMap) = 2
    /\ last.entries = << <<"e2", zeroUID>>, <<"e1", lowerUID>> >>
    /\ last.preMap # last.entries
    /\ map = last.entries

\* the entities that come in more than one pair of entries
Repeated(entries) ==
    {e \in Entities : Cardinality({i \in 1..Len(entries) : entries[i][1] = e}) > 1}

\* the identifier supplied in the last pair of e
LastSupplied(entries, e) ==
    entries[CHOOSE i \in 1..Len(entries) :
               /\ entries[i][1] = e
               /\ \A j \in (i + 1)..Len(entries) : entries[j][1] # e][2]

\* the map holds one association for e, with the identifier of e's last pair
LastPairWins(entries, e) ==
    /\ Cardinality({i \in 1..Len(map) : map[i][1] = e}) = 1
    /\ getUIDFor(map, e) = LastSupplied(entries, e)

\* every element is a pair with a valid identifier
AllValid(entries) ==
    \A i \in 1..Len(entries) : entries[i] # NotIterable /\ IsV4(entries[i][2])

\* C15 as claimed: when the setEntries input has the same entity in more than
\* one pair, all identifiers valid, the map then holds one association for
\* that entity and its identifier is the one supplied in the entity's last pair.
C15_LastPairWins ==
    (last.op = "setEntries" /\ last.isArray /\ AllValid(last.entries)) =>
        \A e \in Repeated(last.entries) : LastPairWins(last.entries, e)

\* C15 as amended: the same, for an input whose identifiers are valid and
\* pairwise distinct; a pair whose identifier is already a value of the map when
\* the pair is handled, be it the same entity's, gets a generated identifier.
C15_LastPairWinsDistinct ==
    (last.op = "setEntries" /\ last.isArray /\ AllValid(last.entries)
       /\ NoDuplicates(uids(last.entries))) =>
        \A e \in Repeated(last.entries) : LastPairWins(last.entries, e)

\* C15 witness: an entity given twice, with two valid identifiers, holds the
\* second.
C15_Witness ==
    /\ last.op = "setEntries" /\ last.isArray
    /\ last.entries = << <<"e1", lowerUID>>, <<"e1", upperUID>> >>
    /\ map = << <<"e1", upperUID>> >>

\* C16: right after deleteEntryForUID or deleteEntryForKey returned true,
\* after reset() and after setEntries returned a report, the generator's
\* seen-list holds exactly the identifiers that are in the map.
C16_SeenListIsMapValues ==
    (\/ last.op \in {"deleteEntryForUID", "deleteEntryForKey"} /\ last.result = TRUE
     \/ last.op = "reset"
     \/ Reported)
        => Range(generated) = Range(uids(map))

\* C17: in every state of a generator, constructed empty or from a list and
\* driven by generate and setExisting, every string of the seen-set is a v4
\* identifier and no string is in it twice.
C17_SeenSetValidDistinct ==
    /\ \A i \in 1..Len(generated) : IsV4(generated[i])
    /\ NoDuplicates(generated)

\* C18: deleteEntryForUID(u) returns true iff some entity maps to u right
\* before the call; when it returns true hasKeyFor(u) is false afterwards and
\* the entity getKeyFor(u) returned before has no association any more.
C18_DeleteForUID ==
    last.op = "deleteEntryForUID" =>
        /\ (last.result = TRUE) <=> hasKeyFor(last.preMap, last.uid)
        /\ (last.result = TRUE) =>
              /\ ~hasKeyFor(map, last.uid)
              /\ ~hasUIDFor(map, getKeyFor(last.preMap, last.uid))

\* C19: deleteEntryForKey(e) returns true iff hasUIDFor(e) is true right before
\* the call; when it returns true hasUIDFor(e) is false afterwards and so is
\* hasKeyFor of the identifier e had.
C19_DeleteForKey ==
    last.op = "deleteEntryForKey" =>
        /\ (last.result = TRUE) <=> hasUIDFor(last.preMap, last.target)
        /\ (last.result = TRUE) =>
              /\ ~hasUIDFor(map, last.target)
              /\ ~hasKeyFor(map, getUIDFor(last.preMap, last.target))

\* C20: setEntries returns false when its argument is not an array or when
\* handling an element raises a fault, and no fault reaches the caller; in
\* every other case it returns a report {changed, invalid}.
C20_SetEntriesFailure ==
    last.op = "setEntries" =>
        IF ~last.isArray \/ \E i \in 1..Len(last.entries) : last.entries[i] = NotIterable
        THEN last.result = ReturnedFalse
        ELSE DOMAIN last.result = {"changed", "invalid"}

\* C20 witness: an array whose second element is not iterable made setEntries
\* return false, after the first pair was stored.
C20_Witness ==
    /\ last.op = "setEntries" /\ last.isArray
    /\ last.entries = << <<"e1", lowerUID>>, NotIterable >>
    /\ last.result = ReturnedFalse
    /\ map = << <<"e1", lowerUID>> >>

\* C20 witness of the other failure: an argument that is no array was refused
\* by a manager that held an association, and the map is what it was.
C20_WitnessNotArray ==
    /\ last.op = "setEntries" /\ ~last.isArray
    /\ last.result = ReturnedFalse
    /\ map # <<>> /\ map = last.preMap

C22_ResetEmpties ==
    last.op = "reset" =>
        /\ map = <<>> /\ keys(map) = <<>> /\ uids(map) = <<>>
        /\ \A e \in Entities : ~hasUIDFor(map, e)
        /\ \A u \in EntryUids \cup gen : ~hasKeyFor(map, u)
        /\ generated = <<>>

\* C22 witness: reset() on a manager that held an invalid string, whose
\* seen-list was not the map's values.
C22_Witness ==
    /\ last.op = "reset"
    /\ badUID \in Range(uids(last.preMap))
    /\ last.preGenerated # <<>>
    /\ last.preGenerated # uids(last.preMap)
    /\ map = <<>>

\* C24: a generate() call appends the returned identifier to the end of the
\* seen-set and changes nothing else in it; after n calls on a fresh generator
\* getExisting() is the n returned identifiers in the order they were issued.
C24_GenerateAppends ==
    /\ last.op = "generate" => generated = Append(last.pre, last.result)
    /\ (seeded = <<>> /\ NeverSet) => generated = issued

\* C24 witness: a fresh generator has returned three identifiers.
C24_Witness ==
    /\ last.op = "generate"
    /\ seeded = <<>> /\ NeverSet
    /\ Len(issued) = 3
    /\ generated = issued

\* C25: when setEntries returns false the map and the generator's seen-list
\* are what they were before the call.
C25_FailedSetIsNoOp ==
    (last.op = "setEntries" /\ last.result = ReturnedFalse) =>
        /\ map = last.preMap
        /\ generated = last.preGenerated

\* a delete call returned b
Deleted(b) ==
    /\ last.op \in {"deleteEntryForUID", "deleteEntryForKey"}
    /\ last.result = b

\* C26: deleteEntryForUID and deleteEntryForKey, when they return false, leave
\* the map, entries and order, and the generator's seen-list unchanged.
C26_FailedDeleteIsNoOp ==
    Deleted(FALSE) => map = last.preMap /\ generated = last.preGenerated

\* C26 witness: deleteEntryForUID found no entry in a map that holds one, while
\* the seen-list was not the list of the map's values.
C26_Witness ==
    /\ last.op = "deleteEntryForUID" /\ last.result = FALSE
    /\ map # <<>>
    /\ generated # uids(map)

\* m without its i-th entry
Without(m, i) == [j \in 1..(Len(m) - 1) |-> IF j < i THEN m[j] ELSE m[j + 1]]

C28_GenerateForFrame ==
    last.op = "generateUIDFor" =>
        /\ \A e \in Entities \ {last.target} :
              /\ hasUIDFor(map, e) <=> hasUIDFor(last.preMap, e)
              /\ hasUIDFor(map, e) => getUIDFor(map, e) = getUIDFor(last.preMap, e)
        /\ Len(map) = Len(last.preMap) + (IF mapHas(last.preMap, last.target) THEN 0 ELSE 1)

\* C28 witness: generateUIDFor on an entity that had an identifier, in a map
\* holding another entity after it.
C28_Witness ==
    /\ last.op = "generateUIDFor"
    /\ Len(last.preMap) = 2
    /\ last.preMap[1][1] = last.target
    /\ Len(map) = 2

\* C30: keys(), uids() and entries() list the associations in insertion order
\* and agree position by position; after generateUIDFor(e) e is the last of
\* keys() and the returned identifier the last of uids(), whether e had an
\* association or not.
C30_OrderAgrees ==
    /\ Len(keys(map)) = Len(entriesArray(map)) /\ Len(uids(map)) = Len(entriesArray(map))
    /\ entriesArray(map) = map
    /\ \A i \in 1..Len(entriesArray(map)) :
          entriesArray(map)[i] = <<keys(map)[i], uids(map)[i]>>
    /\ last.op = "generateUIDFor" =>
          /\ keys(map)[Len(map)] = last.target
          /\ uids(map)[Len(map)] = last.result

\* C30 witness: generateUIDFor on the first of two entities moved it behind the
\* other.
C30_Witness ==
    /\ last.op = "generateUIDFor"
    /\ keys(last.preMap) = <<"e1", "e2">>
    /\ last.target = "e1"
    /\ keys(map) = <<"e2", "e1">>

\* the names of the operations that only read
QueryNames == {"hasUIDFor", "getUIDFor", "hasKeyFor", "getKeyFor", "keys", "uids",
               "entries", "validate", "getExisting"}

\* C29: hasUIDFor, getUIDFor, hasKeyFor, getKeyFor, keys, uids and entries of
\* the manager, and validate and getExisting of the generator, leave the map
\* and the generator's seen-list as they were, in every state.
C29_QueriesChangeNothing ==
    last.op \in QueryNames =>
        /\ map = last.preMap
        /\ generated = last.preGenerated

\* C29 witness: getKeyFor found the entity of an identifier in a map of two
\* entries whose generator holds a list.
C29_Witness ==
    /\ last.op = "getKeyFor"
    /\ Len(map) = 2
    /\ generated # <<>>
    /\ last.result = "e2"

\* C29 witness for the generator: getExisting returned a list that is not empty.
C29_WitnessGenerator ==
    /\ last.op = "getExisting"
    /\ last.result # <<>>
    /\ last.result = generated

\* C23: every operation runs to completion: a generate() that was started (by
\* a caller, by generateUIDFor, or by setEntries replacing a duplicate)
\* eventually returns an identifier, the random source being fair.
C23_GenerateReturns == (last.op = "while") ~> (last.op = "generate")

\* C23 witness: generate() returned after its loop had drawn an identifier of
\* the seen-set and drawn again.
C23_Witness ==
    /\ last.op = "generate"
    /\ last.rejected
    /\ last.result \notin Range(last.pre)
    /\ last.pre # <<>>

\* C31: identifiers are compared as strings, exactly: two valid identifiers
\* that differ in letter case only are both accepted by validate and are
\* different identifiers for the membership test of generate, for the
\* duplicate check of setEntries and for hasKeyFor, getKeyFor and
\* deleteEntryForUID.
C31_ExactStringEquality ==
    /\ lowerUID # upperUID
    /\ validator(TRUE, <<lowerUID, upperUID>>) = <<lowerUID, upperUID>>
    /\ last.op = "generateUIDFor" =>
          \A u \in gen : accepts(last.preGenerated, u) <=> u \notin Range(last.preGenerated)
    /\ (Reported /\ NoDuplicates(uids(last.entries))) => last.result.changed = <<>>
    /\ last.op = "hasKeyFor" =>
          (last.result = TRUE <=> last.uid \in Range(uids(map)))
    /\ last.op = "getKeyFor" =>
          IF last.uid \in Range(uids(map))
          THEN getUIDFor(map, last.result) = last.uid
          ELSE last.result = Undefined
    /\ last.op = "deleteEntryForUID" =>
          /\ last.result = TRUE <=> last.uid \in Range(uids(last.preMap))
          /\ \A i \in 1..Len(last.preMap) :
                last.preMap[i][2] # last.uid => last.preMap[i] \in Range(map)

\* C31 witness: deleteEntryForUID of the lower-case identifier found nothing in
\* a map that holds the same identifier in upper case.
C31_Witness ==
    /\ last.op = "deleteEntryForUID"
    /\ last.uid = lowerUID
    /\ last.result = FALSE
    /\ upperUID \in Range(uids(map))

\* C31 witness for generate: generateUIDFor returned an identifier whose
\* upper-case form was in the seen-list.
C31_WitnessGenerate ==
    /\ last.op = "generateUIDFor"
    /\ last.result = lowerUID
    /\ upperUID \in Range(last.preGenerated)

\* C31 witness for setEntries: two entities given the two forms keep them, and
\* nothing is recorded in `changed`.
C31_WitnessSetEntries ==
    /\ Reported
    /\ last.entries = << <<"e1", upperUID>>, <<"e2", lowerUID>> >>
    /\ map = last.entries
    /\ last.result.changed = <<>>

\* the 122 bits of a tuple that are neither version nor variant bits: all but
\* bits 20..23 of the second value and bits 6..7 of the third
Kept(vals) == [vals EXCEPT ![2][2] = @ % 16, ![3][4] = @ % 64]

\* these bits, of every tuple by its number
kept == [k \in Tuples |-> Kept(tupleAt(k))]

\* every tuple has a number
Numbered == Range(WordSeq) = Words /\ {tupleAt(k) : k \in Tuples} = [1..4 -> Words]

\* C32: for all 4-tuples of 32-bit unsigned values, those of 2^31 or more
\* included, every index formatUid computes is in 0..255, and formatUid
\* overwrites the 4 version bits and the 2 variant bits only: two tuples are
\* formatted to the same string exactly when they agree on the other 122 bits.
C32_FormatKeepsBits ==
    last.op = "formatUid" =>
        /\ Numbered
        /\ \A j \in 1..16 : indexOf(values, indexes[j]) \in 0..255
        /\ \A k \in Tuples : (formatted[k] = uuid) <=> (kept[k] = Kept(values))

\* C32 witness: a tuple with values of 2^31 or more was formatted to the
\* string of another tuple, which differs from it in version and variant bits
\* only.
C32_Witness ==
    /\ last.op = "formatUid"
    /\ values = << <<255, 255, 255, 255>>, <<0, 79, 10, 200>>,
                   <<128, 0, 0, 193>>, <<255, 255, 255, 255>> >>
    /\ uuid = formatUid(<< <<255, 255, 255, 255>>, <<0, 15, 10, 200>>,
                           <<128, 0, 0, 1>>, <<255, 255, 255, 255>> >>)

====
